---- MODULE Spec2Model ----
(***************************************************************************)
(* Model of the merge-request / OIDC-client reconciler of src/main.py.     *)
(*                                                                         *)
(* main() keeps a set known_mr_ids and calls process_merge_requests once   *)
(* (initial check) and then after every sleep.  One call polls the         *)
(* merge-request lister, ensures a registry client "mr-<iid>" for every    *)
(* merge request that is not in the known set, deletes the client of every *)
(* known id that is no longer listed and returns the listed ids as the new *)
(* known set.  The lister and the registry are the environment: every      *)
(* remote call either returns or raises its error.                         *)
(***************************************************************************)
EXTENDS Integers, Sequences, FiniteSets, TLC

\* ----------------------------------------------------------------- bounds
\* Merge requests 1..MaxMR exist in the project.
MaxMR == 2
\* At most MaxFaults remote calls raise an error in one run.
MaxFaults == 2

MRIds == 1..MaxMR
\* The tokens secrets.token_urlsafe(32) draws (line 86).  No statement reads or
\* compares a secret, so the tokens drawn in one run are one value; it differs
\* from the secret of the clients an earlier run left ("token-old").
Secrets == {"token-new"}
Titles == {"fix bug"}

VARIABLES
    pc,              \* position of the single flow of main()
    open,            \* lister side: merge requests in state 'opened'
    registry,        \* registry side: client id -> client record or NoClient
    known_mr_ids,    \* main(): the known set (line 194, 198, 208)
    arg_known,       \* process_merge_requests: its known_mr_ids parameter
    mrs,             \* process_merge_requests: the listed merge requests
    idx,             \* position of the for loop of line 136 in mrs
    current_mr_ids,  \* process_merge_requests: line 132
    new_mrs_found,   \* process_merge_requests: line 133
    closed_mrs,      \* ids of line 147 the loop of line 150 has yet to visit
    new_mrs,         \* main(): the flag returned by the last call
    calls,           \* observer: the calls of the current cycle, in order
    poll,            \* observer: outcome of the lister call of the cycle
    faults,          \* observer: number of remote calls that raised so far
    create_failed,   \* observer: some CreateClient request raised so far
    clean_start,     \* observer: the registry held no mr-<id> client at start
    config,          \* main(): which required settings the environment holds
    in_loop,         \* main(): inside the try block of the monitoring loop
    exit_code,       \* status the process ended with; -1 while it runs
    seen             \* observer: ids listed by some lister call of this run

vars == <<pc, open, registry, known_mr_ids, arg_known, mrs, idx, current_mr_ids,
          new_mrs_found, closed_mrs, new_mrs, calls, poll, faults, create_failed,
          clean_start, config, in_loop, exit_code, seen>>

\* ------------------------------------------------------- derived values
\* f"mr-{mr.iid}"
client_id(iid) == "mr-" \o ToString(iid)

\* Variant of line 151: the id of the neighbouring merge request.
closed_client_id_Next(mr_iid) == "mr-" \o ToString((mr_iid % MaxMR) + 1)

\* client_id = f"mr-{mr_iid}" of the loop over closed_mrs (line 151)
closed_client_id(mr_iid) == "mr-" \o ToString(mr_iid)

\* f"https://mr-{mr.iid}.preview.example.com/callback"
redirect_uri(iid) == "https://mr-" \o ToString(iid) \o ".preview.example.com/callback"

\* f"MR !{mr.iid} - {mr.title}"
client_name(mr) == "MR !" \o ToString(mr.iid) \o " - " \o mr.title

\* api_pb2.Client(...) of process_and_create_client
new_client(mr, client_secret) ==
    [id            |-> client_id(mr.iid),
     secret        |-> client_secret,
     redirect_uris |-> <<redirect_uri(mr.iid)>>,
     trusted_peers |-> <<>>,
     public        |-> FALSE,
     name          |-> client_name(mr),
     logo_url      |-> ""]

\* A client of the registry that is no merge-request client.
StaticClient ==
    [id |-> "static-app", secret |-> "token-s", redirect_uris |-> <<"https://app.example.com/callback">>,
     trusted_peers |-> <<>>, public |-> FALSE, name |-> "static app", logo_url |-> ""]

NoClient == [id |-> ""]

ClientIds == {client_id(n) : n \in MRIds} \cup {StaticClient.id}

Present(reg, cid) == reg[cid] # NoClient

\* The ids of the merge requests of a listing.
Iids(list) == {list[i].iid : i \in 1..Len(list)}

\* The listings the lister can return for a set of open merge requests: every
\* open merge request once (iids are unique within the project), in any order.
Listings(S) ==
    {l \in [1..Cardinality(S) -> [iid : S, title : Titles]] :
        \A i, j \in 1..Cardinality(S) : l[i].iid = l[j].iid => i = j}

Call(op, id, ok) == [op |-> op, id |-> id, ok |-> ok]

\* ------------------------------------------------ the registry service
\* dex_client.CreateClient: the registry stores the client unless a client of
\* that id exists, and never overwrites an existing one.
RegistryCreate(reg, client) ==
    IF Present(reg, client.id) THEN reg ELSE [reg EXCEPT ![client.id] = client]

\* dex_client.DeleteClient: the registry drops the client of that id.
RegistryDelete(reg, cid) == [reg EXCEPT ![cid] = NoClient]

\* ------------------------------------------- the functions of main.py
\* Variant: any client of the registry counts as the one looked for.
client_with_id_exists_AnyClient(reg, cid, ok) ==
    IF ok /\ \E c \in DOMAIN reg : Present(reg, c)
    THEN [exists |-> TRUE, client |-> reg[CHOOSE c \in DOMAIN reg : Present(reg, c)]]
    ELSE [exists |-> FALSE, client |-> NoClient]

\* Variant: the comparison of line 61 never matches.
client_with_id_exists_Never(reg, cid, ok) == [exists |-> FALSE, client |-> NoClient]

\* client_with_id_exists: ok is whether ListClients returned; an RpcError is
\* caught and answered like "no such client".
client_with_id_exists(reg, cid, ok) ==
    IF ok /\ Present(reg, cid)
    THEN [exists |-> TRUE, client |-> reg[cid]]
    ELSE [exists |-> FALSE, client |-> NoClient]

\* Variant: the except block of line 121 returns True as well.
create_client_AlwaysCreated(reg, client, ok) ==
    [registry |-> IF ok THEN RegistryCreate(reg, client) ELSE reg,
     created  |-> TRUE,
     raised   |-> FALSE]

\* The try/except around CreateClient in process_and_create_client: ok is
\* whether the request returned; raised is whether an exception leaves the
\* function.
create_client(reg, client, ok) ==
    [registry |-> IF ok THEN RegistryCreate(reg, client) ELSE reg,
     created  |-> ok,
     raised   |-> FALSE]

\* Variant: the RpcError of DeleteClient is not caught.
delete_client_Propagates(reg, cid, ok) ==
    [registry |-> IF ok THEN RegistryDelete(reg, cid) ELSE reg,
     deleted  |-> ok,
     raised   |-> ~ok]

\* delete_client: ok is whether DeleteClient returned; the RpcError is caught.
delete_client(reg, cid, ok) ==
    [registry |-> IF ok THEN RegistryDelete(reg, cid) ELSE reg,
     deleted  |-> ok,
     raised   |-> FALSE]

\* Variants of the test of line 140.
IsNewMr_Inverted(iid, known) == iid \in known
IsNewMr_Always(iid, known) == TRUE

\* "if mr.iid not in known_mr_ids" (line 140)
IsNewMr(iid, known) == iid \notin known

\* Variant of line 147: every known id counts as closed.
ClosedMrs_AllKnown(known, current) == known

\* "closed_mrs = known_mr_ids - current_mr_ids" (line 147)
ClosedMrs(known, current) == known \ current

\* Variants of the returned set: the listed ids even after a failed poll, and
\* the old set even after a completed cycle.
ReturnedKnown_AlwaysCurrent(completed, known, current) == current
ReturnedKnown_AlwaysKnown(completed, known, current) == known

\* The first value process_merge_requests returns: current_mr_ids from the try
\* block (line 154), known_mr_ids from the except blocks (lines 158, 161).
ReturnedKnown(completed, known, current) == IF completed THEN current ELSE known

\* The required settings of main() (lines 166-168, 172).
Settings == {"GITLAB_TOKEN", "GITLAB_URL", "GITLAB_PROJECT_ID", "DEX_HOST"}

\* Variant: DEX_HOST is left out of the test.
ConfigComplete_NoDexHost(cfg) == \A k \in Settings \ {"DEX_HOST"} : cfg[k]

\* all([gitlab_token, gitlab_url, project_id, dex_host]) (line 177)
ConfigComplete(cfg) == \A k \in Settings : cfg[k]

\* Variant: process_merge_requests has no except block for the lister's errors.
CaughtInCycle_Nothing(kind) == FALSE

\* The except blocks of process_merge_requests (lines 156, 159) catch
\* GitlabError and every other Exception; a KeyboardInterrupt is no Exception
\* and leaves the function.
CaughtInCycle(kind) == kind \in {"GitlabError", "Exception"}

\* The status a KeyboardInterrupt ends the process with: 0 from the except
\* block of lines 214-216 when it is raised inside the try block of line 203;
\* outside it the interrupt is not caught and the interpreter ends the process
\* with a traceback and status 1, or by the signal (130).
InterruptExit(inloop) == IF inloop THEN {0} ELSE {1, 130}

\* A remote call may raise only while the fault budget lasts.
MayFail(ok) == ok \/ faults < MaxFaults
Faults(ok) == IF ok THEN faults ELSE faults + 1

\* ------------------------------------------------------------ initial state
\* main() at its first line, with any subset of the required settings set.
\* The registry holds the static client and any clients an earlier run left.
Init ==
    /\ pc = "start"
    /\ config \in [Settings -> BOOLEAN]
    /\ in_loop = FALSE
    /\ exit_code = -1
    /\ seen = {}
    /\ open \in SUBSET MRIds
    /\ \E left \in SUBSET MRIds :
          /\ registry = [cid \in ClientIds |->
                IF cid = StaticClient.id THEN StaticClient
                ELSE IF \E n \in left : cid = client_id(n)
                     THEN new_client([iid |-> CHOOSE n \in left : cid = client_id(n),
                                      title |-> "fix bug"], "token-old")
                     ELSE NoClient]
          /\ clean_start = (left = {})
    /\ known_mr_ids = {}
    /\ arg_known = {}
    /\ mrs = <<>>
    /\ idx = 1
    /\ current_mr_ids = {}
    /\ new_mrs_found = FALSE
    /\ closed_mrs = {}
    /\ new_mrs = FALSE
    /\ calls = <<>>
    /\ poll = "none"
    /\ faults = 0
    /\ create_failed = FALSE

\* ------------------------------------------------------------- environment
\* The program sees the project only through the lister call, so a change made
\* during a cycle is the same change made before the next call: the steps of
\* the project's users are taken right before the call of line 130.
\* A merge request is opened (or reopened) in the project.
OpenMr(n) ==
    /\ pc = "call"
    /\ n \notin open
    /\ open' = open \cup {n}
    /\ UNCHANGED <<pc, registry, known_mr_ids, arg_known, mrs, idx, current_mr_ids,
                   new_mrs_found, closed_mrs, new_mrs, calls, poll, faults,
                   create_failed, clean_start, config, in_loop, exit_code, seen>>

\* A merge request is merged or closed.
CloseMr(n) ==
    /\ pc = "call"
    /\ n \in open
    /\ open' = open \ {n}
    /\ UNCHANGED <<pc, registry, known_mr_ids, arg_known, mrs, idx, current_mr_ids,
                   new_mrs_found, closed_mrs, new_mrs, calls, poll, faults,
                   create_failed, clean_start, config, in_loop, exit_code, seen>>

\* ------------------------------------------------- process_merge_requests
\* The except blocks of lines 156-161: the call returns known_mr_ids, False.
\* completed is FALSE here; main() assigns the pair and goes to sleep.
ReturnFromExcept(known) ==
    /\ known_mr_ids' = ReturnedKnown(FALSE, known, current_mr_ids)
    /\ new_mrs' = FALSE
    /\ in_loop' = TRUE
    /\ pc' = "sleep"

\* An exception no except block of process_merge_requests catches leaves
\* main() during a cycle: traceback, status 1.
Uncaught ==
    /\ pc' = "exited"
    /\ exit_code' = 1
    /\ UNCHANGED <<known_mr_ids, new_mrs, in_loop>>

\* The call of process_merge_requests and its first statement, the lister call
\* get_open_merge_requests (line 130), with lines 132-133 when it returns.
Poll(ok) ==
    /\ pc = "call"
    /\ MayFail(ok)
    /\ faults' = Faults(ok)
    /\ arg_known' = known_mr_ids
    /\ calls' = <<>>
    /\ current_mr_ids' = {}
    /\ new_mrs_found' = FALSE
    /\ idx' = 1
    /\ closed_mrs' = {}
    /\ IF ok
       THEN /\ mrs' \in Listings(open)
            /\ poll' = "ok"
            /\ pc' = "for"
            /\ seen' = seen \cup open
            /\ UNCHANGED <<known_mr_ids, new_mrs, in_loop, exit_code>>
       ELSE /\ mrs' = <<>>
            /\ poll' = "failed"
            /\ UNCHANGED seen
            /\ IF CaughtInCycle("GitlabError")
               THEN ReturnFromExcept(known_mr_ids) /\ UNCHANGED exit_code
               ELSE Uncaught
    /\ UNCHANGED <<open, registry, create_failed, clean_start, config>>

\* One pass of "for mr in mrs" up to the call of process_and_create_client
\* (lines 136-142).
ForMr ==
    /\ pc = "for"
    /\ idx <= Len(mrs)
    /\ LET mr == mrs[idx] IN
          /\ current_mr_ids' = current_mr_ids \cup {mr.iid}
          /\ IF IsNewMr(mr.iid, arg_known)
             THEN /\ pc' = "exists"
                  /\ calls' = Append(calls, Call("EnsureClient", client_id(mr.iid), TRUE))
                  /\ UNCHANGED idx
             ELSE /\ idx' = idx + 1
                  /\ UNCHANGED <<pc, calls>>
    /\ UNCHANGED <<open, registry, known_mr_ids, arg_known, mrs, new_mrs_found,
                   closed_mrs, new_mrs, poll, faults, create_failed, clean_start,
                   config, in_loop, exit_code, seen>>

\* process_and_create_client, lines 92-101: the existence check.
ListClients(ok) ==
    /\ pc = "exists"
    /\ MayFail(ok)
    /\ faults' = Faults(ok)
    /\ LET cid == client_id(mrs[idx].iid)
           r   == client_with_id_exists(registry, cid, ok)
       IN  /\ calls' = Append(calls, Call("ListClients", cid, ok))
           /\ IF r.exists
              THEN /\ pc' = "for"
                   /\ idx' = idx + 1
              ELSE /\ pc' = "create"
                   /\ UNCHANGED idx
    /\ UNCHANGED <<open, registry, known_mr_ids, arg_known, mrs, current_mr_ids,
                   new_mrs_found, closed_mrs, new_mrs, poll, create_failed,
                   clean_start, config, in_loop, exit_code, seen>>

\* process_and_create_client, lines 104-123, and lines 143-144 of the caller.
\* The secret of line 93 is a fresh random token, used here only.
CreateClient(ok, client_secret) ==
    /\ pc = "create"
    /\ MayFail(ok)
    /\ faults' = Faults(ok)
    /\ LET mr == mrs[idx]
           r  == create_client(registry, new_client(mr, client_secret), ok)
       IN  /\ calls' = Append(calls, Call("CreateClient", client_id(mr.iid), ok))
           /\ registry' = r.registry
           /\ create_failed' = (create_failed \/ ~ok)
           /\ IF r.raised
              THEN /\ ReturnFromExcept(arg_known)
                   /\ UNCHANGED <<idx, new_mrs_found>>
              ELSE /\ new_mrs_found' = (new_mrs_found \/ r.created)
                   /\ idx' = idx + 1
                   /\ pc' = "for"
                   /\ UNCHANGED <<known_mr_ids, new_mrs, in_loop>>
    /\ UNCHANGED <<open, arg_known, mrs, current_mr_ids, closed_mrs, poll, clean_start,
                   config, exit_code, seen>>

\* Variant: lines 147-152 are indented into the for loop.
ForExit_InsideLoop ==
    /\ pc = "for"
    /\ closed_mrs' = ClosedMrs(arg_known, current_mr_ids)
    /\ pc' = "closed"
    /\ UNCHANGED <<open, registry, known_mr_ids, arg_known, mrs, idx, current_mr_ids,
                   new_mrs_found, new_mrs, calls, poll, faults, create_failed,
                   clean_start, config, in_loop, exit_code, seen>>

\* The end of the for loop and line 147.
ForExit ==
    /\ pc = "for"
    /\ idx > Len(mrs)
    /\ closed_mrs' = ClosedMrs(arg_known, current_mr_ids)
    /\ pc' = "closed"
    /\ UNCHANGED <<open, registry, known_mr_ids, arg_known, mrs, idx, current_mr_ids,
                   new_mrs_found, new_mrs, calls, poll, faults, create_failed,
                   clean_start, config, in_loop, exit_code, seen>>

\* One pass of "for mr_iid in closed_mrs" (lines 150-152); a set is iterated
\* in any order.
DeleteClient(mr_iid, ok) ==
    /\ pc = "closed"
    /\ mr_iid \in closed_mrs
    /\ MayFail(ok)
    /\ faults' = Faults(ok)
    /\ LET cid == closed_client_id(mr_iid)
           r   == delete_client(registry, cid, ok)
       IN  /\ calls' = Append(calls, Call("DeleteClient", cid, ok))
           /\ registry' = r.registry
           /\ closed_mrs' = closed_mrs \ {mr_iid}
           /\ IF r.raised
              THEN ReturnFromExcept(arg_known)
              ELSE UNCHANGED <<pc, known_mr_ids, new_mrs, in_loop>>
    /\ UNCHANGED <<open, arg_known, mrs, idx, current_mr_ids, new_mrs_found, poll,
                   create_failed, clean_start, config, exit_code, seen>>

\* "return current_mr_ids, new_mrs_found" (line 154) and the assignment of the
\* pair in main() (lines 198, 208).
Return ==
    /\ pc = "closed"
    /\ closed_mrs = {}
    /\ known_mr_ids' = ReturnedKnown(TRUE, arg_known, current_mr_ids)
    /\ new_mrs' = new_mrs_found
    /\ in_loop' = TRUE
    /\ pc' = "sleep"
    /\ UNCHANGED <<open, registry, arg_known, mrs, idx, current_mr_ids, new_mrs_found,
                   closed_mrs, calls, poll, faults, create_failed, clean_start,
                   config, exit_code, seen>>

\* ---------------------------------------------------------------- main()
\* time.sleep(check_interval) of the monitoring loop (line 205).  The locals of
\* the call that returned are gone and the flag new_mrs was last read at line
\* 211; the observers keep the cycle's record until here.
Sleep ==
    /\ pc = "sleep"
    /\ pc' = "call"
    /\ arg_known' = {}
    /\ mrs' = <<>>
    /\ idx' = 1
    /\ current_mr_ids' = {}
    /\ new_mrs_found' = FALSE
    /\ closed_mrs' = {}
    /\ calls' = <<>>
    /\ poll' = "none"
    /\ new_mrs' = FALSE
    /\ UNCHANGED <<open, registry, known_mr_ids, faults, create_failed,
                   clean_start, config, in_loop, exit_code, seen>>

\* The configuration check of lines 166-179 and, when it passes, lines 181-194.
ValidateConfig ==
    /\ pc = "start"
    /\ IF ConfigComplete(config)
       THEN pc' = "call" /\ UNCHANGED exit_code
       ELSE pc' = "exited" /\ exit_code' = 1
    /\ UNCHANGED <<open, registry, known_mr_ids, arg_known, mrs, idx, current_mr_ids,
                   new_mrs_found, closed_mrs, new_mrs, calls, poll, faults,
                   create_failed, clean_start, config, in_loop, seen>>

\* An interrupt signal reaches the process after the configuration check:
\* KeyboardInterrupt is raised at the statement main() is at, passes the
\* except blocks of process_merge_requests and ends the process.  The memory
\* of the process is gone with it.
Interrupt ==
    /\ pc \notin {"start", "exited"}
    /\ ~CaughtInCycle("KeyboardInterrupt")
    /\ pc' = "exited"
    /\ exit_code' \in InterruptExit(in_loop)
    /\ known_mr_ids' = {}
    /\ arg_known' = {}
    /\ mrs' = <<>>
    /\ idx' = 1
    /\ current_mr_ids' = {}
    /\ new_mrs_found' = FALSE
    /\ closed_mrs' = {}
    /\ new_mrs' = FALSE
    /\ calls' = <<>>
    /\ poll' = "none"
    /\ UNCHANGED <<open, registry, faults, create_failed, clean_start, config,
                   in_loop, seen>>

\* The steps of the program.
Reconciler ==
    \/ ValidateConfig
    \/ \E ok \in BOOLEAN : Poll(ok)
    \/ ForMr
    \/ \E ok \in BOOLEAN : ListClients(ok)
    \/ \E ok \in BOOLEAN : \E s \in Secrets : CreateClient(ok, s)
    \/ ForExit
    \/ \E n \in MRIds : \E ok \in BOOLEAN : DeleteClient(n, ok)
    \/ Return
    \/ Sleep

\* The steps of the project's users.
Environment ==
    \/ \E n \in MRIds : OpenMr(n)
    \/ \E n \in MRIds : CloseMr(n)

\* The steps of the operator's terminal.
Signal == Interrupt

Next == Reconciler \/ Environment \/ Signal

Spec == Init /\ [][Next]_vars

\* The flow of main() is never suspended for ever: every remote call returns
\* or raises, and the sleep ends.
FairSpec == Spec /\ WF_vars(Reconciler)

TypeOK ==
    /\ pc \in {"start", "call", "for", "exists", "create", "closed", "sleep", "exited"}
    /\ config \in [Settings -> BOOLEAN]
    /\ in_loop \in BOOLEAN
    /\ exit_code \in {-1, 0, 1, 130}
    /\ seen \subseteq MRIds
    /\ open \subseteq MRIds
    /\ known_mr_ids \subseteq MRIds
    /\ arg_known \subseteq MRIds
    /\ current_mr_ids \subseteq MRIds
    /\ closed_mrs \subseteq MRIds
    /\ idx \in 1..(MaxMR + 1)
    /\ faults \in 0..MaxFaults
    /\ poll \in {"none", "ok", "failed"}
    /\ DOMAIN registry = ClientIds

\* ============================================================== properties
\* The merge-request clients the registry holds.
MrClients == {cid \in ClientIds \ {StaticClient.id} : Present(registry, cid)}

\* The positions of the calls of the cycle with this operation and client id.
CallsOf(op, cid) == {i \in 1..Len(calls) : calls[i].op = op /\ calls[i].id = cid}

\* The ids the cycle found new and closed: the snapshot against the set passed in.
NewIds == Iids(mrs) \ arg_known
ClosedIds == arg_known \ Iids(mrs)

\* A cycle has ended and main() holds its result.
CycleEnded == pc = "sleep"

\* The step appends a call with this operation and client id to the record.
Issues(op, cid) ==
    /\ Len(calls') = Len(calls) + 1
    /\ calls'[Len(calls')].op = op
    /\ calls'[Len(calls')].id = cid

\* C1: starting from an empty known set and a registry without mr-<id> clients,
\* while no lister call and no registry call has failed, the mr-<id> clients of
\* the registry after a completed cycle are exactly those of the ids of the
\* cycle's snapshot.
C1_FaultFreeConvergence ==
    (CycleEnded /\ clean_start /\ faults = 0)
        => MrClients = {client_id(n) : n \in Iids(mrs)}

\* A fault-free cycle from a clean start that both created and deleted a client.
C1_Witness ==
    /\ CycleEnded /\ clean_start /\ faults = 0
    /\ NewIds # {} /\ ClosedIds # {}

\* C2: a cycle whose poll succeeded has issued exactly one EnsureClient per
\* id of current - prev, exactly one DeleteClient per id of prev - current, no
\* call for an id of both, and no call twice.
C2_DiffCorrectness ==
    (CycleEnded /\ poll = "ok") =>
        /\ \A n \in MRIds :
              /\ Cardinality(CallsOf("EnsureClient", client_id(n)))
                    = IF n \in NewIds THEN 1 ELSE 0
              /\ Cardinality(CallsOf("DeleteClient", client_id(n)))
                    = IF n \in ClosedIds THEN 1 ELSE 0
              /\ Cardinality(CallsOf("ListClients", client_id(n))) <= 1
              /\ Cardinality(CallsOf("CreateClient", client_id(n))) <= 1
              /\ n \in arg_known \cap Iids(mrs)
                    => \A i \in 1..Len(calls) : calls[i].id # client_id(n)
        /\ \A i \in 1..Len(calls) : calls[i].id \in {client_id(n) : n \in MRIds}

\* A completed cycle with a new and a closed merge request.
C2_Witness ==
    /\ CycleEnded /\ poll = "ok"
    /\ NewIds # {} /\ ClosedIds # {}
    /\ Len(calls) >= 3

\* C3: when the lister call fails, the known set main() holds after the cycle
\* is the one passed in and the cycle has made no registry call.
C3_PollFailurePreservesState ==
    (CycleEnded /\ poll = "failed") => (known_mr_ids = arg_known /\ calls = <<>>)

\* A failed poll while the known set is non-empty and differs from the open set.
C3_Witness ==
    /\ CycleEnded /\ poll = "failed"
    /\ arg_known # {} /\ arg_known # open /\ open # {}

\* C4: when ListClients fails during EnsureClient, no CreateClient request is
\* issued for that id.
C4_AbortOnFailedCheck ==
    \A i \in 1..Len(calls) :
        (calls[i].op = "ListClients" /\ ~calls[i].ok)
            => \A j \in 1..Len(calls) :
                  ~(j > i /\ calls[j].op = "CreateClient" /\ calls[j].id = calls[i].id)

\* C5 as claimed: once CreateClient has failed for a merge request, and the
\* lister and the registry work from then on, the client mr-<id> exists at some
\* later time unless the merge request is closed or the process is interrupted.
C5_RecoveredByLaterPoll ==
    \A n \in MRIds :
        (/\ CycleEnded /\ faults = MaxFaults /\ n \in open
         /\ \E i \in CallsOf("CreateClient", client_id(n)) : ~calls[i].ok)
            ~> (n \notin open \/ Present(registry, client_id(n)) \/ pc = "exited")

\* C5 as amended: a registry call is not issued twice for an id in one cycle,
\* and later cycles do not make up for it: while an id is in the known set a
\* missing client mr-<id> stays missing, and while an id is not in the known
\* set an existing client mr-<id> stays.
C5_NoRetryWhileKnown ==
    [][\A n \in MRIds :
          LET cid == client_id(n) IN
          /\ (n \in known_mr_ids /\ ~Present(registry, cid)) => ~Present(registry', cid)
          /\ (n \notin known_mr_ids /\ Present(registry, cid)) => Present(registry', cid)
          /\ \A op \in {"CreateClient", "DeleteClient"} :
                CallsOf(op, cid) # {} => ~Issues(op, cid)
      ]_vars

\* A later cycle listed the merge request again, with its id known and its
\* client still missing.
C5_Witness ==
    \E n \in MRIds :
        /\ CycleEnded /\ poll = "ok" /\ create_failed
        /\ n \in arg_known /\ n \in Iids(mrs) /\ n \in known_mr_ids
        /\ ~Present(registry, client_id(n))

C7_BestEffortReplacement ==
    (CycleEnded /\ poll = "ok") => known_mr_ids = Iids(mrs)

\* A cycle in which a create and a delete failed: the id of the failed create
\* is known, the id of the failed delete is not.
C7_Witness ==
    \E n, m \in MRIds :
        /\ CycleEnded /\ poll = "ok"
        /\ \E i \in CallsOf("CreateClient", client_id(n)) : ~calls[i].ok
        /\ \E i \in CallsOf("DeleteClient", client_id(m)) : ~calls[i].ok
        /\ n \in known_mr_ids /\ m \notin known_mr_ids
        /\ Present(registry, client_id(m)) /\ ~Present(registry, client_id(n))

\* C8: a registry call that failed in a cycle stops nothing: the cycle has
\* still issued the DeleteClient of every closed id and the existence check of
\* every new id, and has returned the snapshot's ids.
C8_FaultIsolation ==
    (CycleEnded /\ poll = "ok" /\ \E i \in 1..Len(calls) : ~calls[i].ok) =>
        /\ \A n \in ClosedIds : CallsOf("DeleteClient", client_id(n)) # {}
        /\ \A n \in NewIds :
              /\ CallsOf("EnsureClient", client_id(n)) # {}
              /\ CallsOf("ListClients", client_id(n)) # {}
        /\ known_mr_ids = Iids(mrs)

\* Two merge requests closed, the first DeleteClient failed and the second was
\* issued after it.
C8_Witness ==
    /\ CycleEnded /\ poll = "ok"
    /\ Cardinality(ClosedIds) > 1
    /\ \E i, j \in 1..Len(calls) :
          /\ i < j
          /\ calls[i].op = "DeleteClient" /\ ~calls[i].ok
          /\ calls[j].op = "DeleteClient" /\ calls[j].id # calls[i].id

\* C9: when the registry holds mr-<id> and ListClients returns, EnsureClient
\* goes on to the next merge request without a CreateClient request, reports
\* nothing created and leaves the registry as it is.
C9_EnsureIdempotent ==
    [][(/\ pc = "exists"
        /\ Present(registry, client_id(mrs[idx].iid))
        /\ Issues("ListClients", client_id(mrs[idx].iid))
        /\ calls'[Len(calls')].ok)
          => (/\ pc' = "for"
              /\ idx' = idx + 1
              /\ registry' = registry
              /\ new_mrs_found' = new_mrs_found)
      ]_vars

\* EnsureClient has just skipped a merge request whose client exists.
C9_Witness ==
    /\ pc = "for"
    /\ calls # <<>>
    /\ calls[Len(calls)].op = "ListClients"
    /\ calls[Len(calls)].ok
    /\ Present(registry, calls[Len(calls)].id)

\* C10: while an id is in the known set, its client exists and the merge
\* request is in the snapshot of the running cycle (or no snapshot is being
\* processed), no step changes the client mr-<id> or issues a CreateClient or
\* DeleteClient for it.
C10_NoRecreation ==
    [][\A n \in MRIds :
          LET cid == client_id(n) IN
          (/\ n \in known_mr_ids
           /\ Present(registry, cid)
           /\ (pc \in {"call", "sleep"} \/ n \in Iids(mrs)))
             => (/\ registry'[cid] = registry[cid]
                 /\ ~Issues("CreateClient", cid)
                 /\ ~Issues("DeleteClient", cid))
      ]_vars

\* A cycle that did registry work for another merge request while this one
\* stayed open with its client.
C10_Witness ==
    \E n \in MRIds :
        /\ CycleEnded /\ poll = "ok"
        /\ n \in arg_known /\ n \in Iids(mrs)
        /\ Present(registry, client_id(n))
        /\ calls # <<>>

\* The templates of the client id and the redirect URI of merge request n.
MrClientId(n) == "mr-" \o ToString(n)
MrRedirectUri(n) == "https://mr-" \o ToString(n) \o ".preview.example.com/callback"

\* The step appends one call to the record.
IssuesCall == Len(calls') = Len(calls) + 1

\* C11: a step in which a lister or registry call fails never ends the
\* process, and unless the process has exited (by the configuration check or
\* an interrupt) it is again and again at the call of the next cycle and again
\* and again at the end of a cycle: cycles follow each other for ever.
C11_ErrorsNonFatal ==
    /\ [][(pc' = "exited" /\ pc \notin {"start", "exited"}) => faults' = faults]_vars
    /\ []<>(pc \in {"call", "exited"})
    /\ []<>(pc \in {"sleep", "exited"})

\* The monitoring loop processes a snapshot after every allowed call has failed.
C11_Witness ==
    /\ in_loop /\ faults = MaxFaults
    /\ pc = "for" /\ poll = "ok"

\* C12: a process that passed the configuration check and was ended by an
\* interrupt has exit status 0.
C12_InterruptExitsZero ==
    (pc = "exited" /\ ConfigComplete(config)) => exit_code = 0

\* C13: with a required setting missing the process never gets past the
\* configuration check: it makes no lister call and no registry call, starts
\* no cycle, and when it has exited its status is 1.
C13_MissingConfigFatal ==
    (\E k \in Settings : ~config[k]) =>
        /\ pc \in {"start", "exited"}
        /\ pc = "exited" => exit_code = 1
        /\ calls = <<>> /\ poll = "none" /\ seen = {} /\ faults = 0
        /\ ~in_loop /\ known_mr_ids = {}

\* The process has exited with status 1 because only DEX_HOST is missing.
C13_Witness ==
    /\ pc = "exited" /\ exit_code = 1
    /\ {k \in Settings : ~config[k]} = {"DEX_HOST"}

\* C14: in the first cycle of a run every listed merge request goes through
\* EnsureClient, no CreateClient is issued for a client that exists and the
\* client is left as it is, and no DeleteClient is issued.
C14_RestartReevaluation ==
    [][~in_loop =>
          /\ (pc = "for" /\ pc' = "for") => idx' = idx
          /\ \A cid \in ClientIds :
                /\ Present(registry, cid)
                      => (~Issues("CreateClient", cid) /\ registry'[cid] = registry[cid])
                /\ ~Issues("DeleteClient", cid)
      ]_vars

\* C15: the create request for merge request n carries the client id mr-<n>
\* and stores a record with that id and the redirect URI of n; the delete
\* request for a closed merge request n carries mr-<n> as well, which is the
\* record stored for n; ids of different merge requests differ.
C15_DeterministicDerivation ==
    [][\A n \in MRIds :
          /\ (pc = "create" /\ mrs[idx].iid = n /\ IssuesCall)
                => /\ Issues("CreateClient", MrClientId(n))
                   /\ \A c \in ClientIds \ {MrClientId(n)} : registry'[c] = registry[c]
                   /\ registry' # registry
                         => /\ registry'[MrClientId(n)].id = MrClientId(n)
                            /\ registry'[MrClientId(n)].redirect_uris = <<MrRedirectUri(n)>>
          /\ (pc = "closed" /\ n \in closed_mrs /\ n \notin closed_mrs' /\ IssuesCall)
                => /\ Issues("DeleteClient", MrClientId(n))
                   /\ \A c \in ClientIds \ {MrClientId(n)} : registry'[c] = registry[c]
                   /\ Present(registry, MrClientId(n))
                         => registry[MrClientId(n)].redirect_uris = <<MrRedirectUri(n)>>
                   /\ calls'[Len(calls')].ok => ~Present(registry', MrClientId(n))
          /\ \A m \in MRIds \ {n} : MrClientId(m) # MrClientId(n)
      ]_vars

\* The client created in this run for a merge request was deleted after the
\* merge request closed, while another client stayed.
C15_Witness ==
    \E n \in MRIds :
        /\ clean_start /\ n \in seen /\ n \in ClosedIds
        /\ \E i \in CallsOf("DeleteClient", MrClientId(n)) : calls[i].ok
        /\ ~Present(registry, MrClientId(n))
        /\ MrClients # {}

\* C16: every DeleteClient of a cycle is for an id that was in the known set
\* passed in and is not in the cycle's snapshot.
C16_NeverDeletesOpen ==
    \A i \in 1..Len(calls) :
        calls[i].op = "DeleteClient"
            => \E n \in arg_known \ Iids(mrs) : calls[i].id = MrClientId(n)

\* A DeleteClient was issued in a cycle in which another known merge request
\* is still listed, after a call had failed.
C16_Witness ==
    /\ \E i \in 1..Len(calls) : calls[i].op = "DeleteClient"
    /\ arg_known \cap Iids(mrs) # {}
    /\ faults > 0

\* C17: a step changes a client of the registry, or issues a CreateClient or
\* DeleteClient for it, only if it is the client mr-<id> of an id that some
\* lister call of this run has listed.
C17_RegistryFrame ==
    [][\A cid \in ClientIds :
          (\/ registry'[cid] # registry[cid]
           \/ Issues("CreateClient", cid)
           \/ Issues("DeleteClient", cid))
             => \E n \in seen : cid = MrClientId(n)
      ]_vars

\* A client was deleted while the client of a merge request never listed in
\* this run, and the static client, are still there.
C17_Witness ==
    /\ \E i \in 1..Len(calls) : calls[i].op = "DeleteClient" /\ calls[i].ok
    /\ \E n \in MRIds \ seen : Present(registry, MrClientId(n))
    /\ registry[StaticClient.id] = StaticClient

\* C18: registry calls are made only after the lister call of the cycle has
\* returned; no EnsureClient, existence check or create follows a DeleteClient;
\* when the first DeleteClient is issued every new merge request has been
\* through EnsureClient; and no call of a cycle is pending when the next
\* cycle is called.
C18_OrderInCycle ==
    /\ (calls # <<>> \/ pc \in {"for", "exists", "create", "closed"}) => poll = "ok"
    /\ \A i, j \in 1..Len(calls) :
          (i < j /\ calls[i].op = "DeleteClient") => calls[j].op = "DeleteClient"
    /\ (pc = "closed" \/ \E i \in 1..Len(calls) : calls[i].op = "DeleteClient")
          => /\ pc \in {"closed", "sleep"}
             /\ \A n \in NewIds :
                   /\ CallsOf("EnsureClient", MrClientId(n)) # {}
                   /\ CallsOf("ListClients", MrClientId(n)) # {}
    /\ pc = "call" => (calls = <<>> /\ closed_mrs = {})

\* A cycle that created a client and then deleted another.
C18_Witness ==
    /\ CycleEnded
    /\ \E i, j \in 1..Len(calls) :
          i < j /\ calls[i].op = "CreateClient" /\ calls[j].op = "DeleteClient"

\* C19: the flag a cycle returns is true exactly when a CreateClient request
\* of the cycle returned without error; it is false after a failed poll.
C19_NewFlag ==
    CycleEnded =>
        /\ new_mrs = (\E i \in 1..Len(calls) : calls[i].op = "CreateClient" /\ calls[i].ok)
        /\ poll = "failed" => ~new_mrs

\* A cycle that found two new merge requests, skipped one and failed to create
\* the other: the flag is false.
C19_Witness ==
    /\ CycleEnded /\ poll = "ok" /\ ~new_mrs
    /\ Cardinality(NewIds) > 1
    /\ \E i \in 1..Len(calls) : calls[i].op = "CreateClient" /\ ~calls[i].ok
    /\ Cardinality({i \in 1..Len(calls) : calls[i].op = "CreateClient"}) = 1

====
